---------------------------- MODULE Spec2Model ----------------------------
(***************************************************************************)
(* abcdb's ABC canonifier: the PEG grammar of src/src/grammar.rs (a pest   *)
(* 0.4 impl_rdp! grammar) and the parse tree visitors of                   *)
(* src/src/visitors.rs.                                                    *)
(*                                                                         *)
(* A character is a one-character string and a text is a sequence of       *)
(* characters, so <<"A", " ", "\t">> is the text "A \t".  Offsets are      *)
(* 0-based as in the Rust code: the text of the span start..end is         *)
(* SubSeq(text, start + 1, end).  The characters of the model's inputs are *)
(* all ASCII, so byte offsets and character offsets agree; the three       *)
(* non-ASCII characters the grammar names are written "U+266F", "U+266D"   *)
(* and "U+266E", and the backquote, which a TLA+ string cannot hold, is    *)
(* written "U+0060".                                                       *)
(***************************************************************************)
EXTENDS Integers, Sequences, FiniteSets, TLC

VARIABLES line, input, pc, q, i, result, calls, tops, pass, first

vars == <<line, input, pc, q, i, result, calls, tops, pass, first>>

----------------------------------------------------------------------------
(* Patterns: what the grammar! macro builds its matchers from.  A pattern  *)
(* is a record tagged by t; sequences and choices are folded to the left,  *)
(* as the macro's precedence climbing nests them.                          *)

Ascii ==
    <<" ", "!", "\"", "#", "$", "%", "&", "'", "(", ")", "*", "+", ",", "-", ".", "/",
      "0", "1", "2", "3", "4", "5", "6", "7", "8", "9", ":", ";", "<", "=", ">", "?",
      "@", "A", "B", "C", "D", "E", "F", "G", "H", "I", "J", "K", "L", "M", "N", "O",
      "P", "Q", "R", "S", "T", "U", "V", "W", "X", "Y", "Z", "[", "\\", "]", "^", "_",
      "U+0060", "a", "b", "c", "d", "e", "f", "g", "h", "i", "j", "k", "l", "m", "n", "o",
      "p", "q", "r", "s", "t", "u", "v", "w", "x", "y", "z", "{", "|", "}", "~">>

Ord(c) == CHOOSE k \in 1..Len(Ascii) : Ascii[k] = c

PLit(cs) == [t |-> "lit", cs |-> cs]

PRange(lo, hi) == [t |-> "set", cs |-> {Ascii[k] : k \in Ord(lo)..Ord(hi)}]

PAny == [t |-> "any"]

PEoi == [t |-> "eoi"]

PNot(a) == [t |-> "not", a |-> a]

POpt(a) == [t |-> "opt", a |-> a]

PStar(a) == [t |-> "star", a |-> a]

PPlus(a) == [t |-> "plus", a |-> a]

RECURSIVE PFold(_, _, _)
PFold(tag, xs, n) ==
    IF n = 1 THEN xs[1] ELSE [t |-> tag, a |-> PFold(tag, xs, n - 1), b |-> xs[n]]

PSeq(xs) == PFold("seq", xs, Len(xs))

PAlt(xs) == PFold("alt", xs, Len(xs))

PRule(name, body) == [t |-> "rule", name |-> name, body |-> body]

PRef(name) == [t |-> "ref", name |-> name]

----------------------------------------------------------------------------
(* The grammar, rule by rule, each after the rules it uses.                *)

\* grammar.rs:85  basenote = { ['A'..'G'] | ['a'..'g'] }
basenote ==
    PRule("basenote", PAlt(<<PRange("A", "G"), PRange("a", "g")>>))

\* grammar.rs:217  chord_accidental = { ["#"] | ["b"] | ["="] | ["♯"] | ["♭"] | ["♮"] }
chord_accidental ==
    PRule("chord_accidental", PAlt(<<PLit(<<"#">>), PLit(<<"b">>),
    PLit(<<"=">>), PLit(<<"U+266F">>), PLit(<<"U+266D">>), PLit(<<"U+266E">>)>>))

\* grammar.rs:220  chord_type = { (['A'..'Z'] | ['a'..'z'] | ['0'..'9']+ | ["-"])+ }
chord_type ==
    PRule("chord_type", PPlus(PAlt(<<PRange("A", "Z"), PRange("a", "z"),
    PPlus(PRange("0", "9")), PLit(<<"-">>)>>)))

\* grammar.rs:255  chord_newline = { ["\\n"] | [";"] }
chord_newline ==
    PRule("chord_newline", PAlt(<<PLit(<<"\\", "n">>), PLit(<<";">>)>>))

\* grammar.rs:257  non_quote = { !["\""] ~ any }
non_quote ==
    PRule("non_quote", PSeq(<<PNot(PLit(<<"\"">>)), PAny>>))

\* chord whose catch-all tail has no lookahead for chord_newline
chord_without_lookahead ==
    PRule("chord", PSeq(<<basenote, POpt(chord_accidental), POpt(chord_type),
    POpt(PSeq(<<PLit(<<"/">>), basenote, POpt(chord_accidental)>>)),
    PStar(non_quote)>>))

\* grammar.rs:212  chord = { basenote ~ chord_accidental? ~ chord_type? ~ (["/"] ~ basenote ~ chord_accidental?)? ~ (!chord_newline ~ non_quote)* }
chord ==
    PRule("chord", PSeq(<<basenote, POpt(chord_accidental), POpt(chord_type),
    POpt(PSeq(<<PLit(<<"/">>), basenote, POpt(chord_accidental)>>)),
    PStar(PSeq(<<PNot(chord_newline), non_quote>>))>>))

\* grammar.rs:228  bad_text_expression = { (!chord_newline ~ non_quote)+ }
bad_text_expression ==
    PRule("bad_text_expression", PPlus(PSeq(<<PNot(chord_newline),
    non_quote>>)))

\* grammar.rs:224  text_expression = { ( ( ["^"] | ["<"] | [">"] | ["_"] | ["@"] ) ~ (!chord_newline ~ non_quote)+ ) | bad_text_expression }
text_expression ==
    PRule("text_expression", PAlt(<<PSeq(<<PAlt(<<PLit(<<"^">>),
    PLit(<<"<">>), PLit(<<">">>), PLit(<<"_">>), PLit(<<"@">>)>>),
    PPlus(PSeq(<<PNot(chord_newline), non_quote>>))>>), bad_text_expression>>))

\* grammar.rs:28  chord_or_text = { ["\""] ~ (chord | text_expression) ~ (chord_newline ~ (chord | text_expression))* ~ ["\""] }
chord_or_text ==
    PRule("chord_or_text", PSeq(<<PLit(<<"\"">>), PAlt(<<chord,
    text_expression>>), PStar(PSeq(<<chord_newline, PAlt(<<chord, text_expression>>)>>)),
    PLit(<<"\"">>)>>))

\* grammar.rs:181  gracing1 = { ["<("] | ["<)"] | [">("] | [">)"] | ["D.C."] | ["D.S."] | ["accent"] | ["arpeggio"] | ["breath"] | ["coda"] | ["crescendo("] | ["crescendo)"] | ["dacapo"] | ["dacoda"] | ["diminuendo("] }
gracing1 ==
    PRule("gracing1", PAlt(<<PLit(<<"<", "(">>), PLit(<<"<", ")">>), PLit(<<">",
    "(">>), PLit(<<">", ")">>), PLit(<<"D", ".", "C", ".">>), PLit(<<"D", ".", "S", ".">>),
    PLit(<<"a", "c", "c", "e", "n", "t">>), PLit(<<"a", "r", "p", "e", "g", "g", "i", "o">>),
    PLit(<<"b", "r", "e", "a", "t", "h">>), PLit(<<"c", "o", "d", "a">>), PLit(<<"c", "r", "e",
    "s", "c", "e", "n", "d", "o", "(">>), PLit(<<"c", "r", "e", "s", "c", "e", "n", "d", "o",
    ")">>), PLit(<<"d", "a", "c", "a", "p", "o">>), PLit(<<"d", "a", "c", "o", "d", "a">>),
    PLit(<<"d", "i", "m", "i", "n", "u", "e", "n", "d", "o", "(">>)>>))

\* grammar.rs:184  gracing2 = { ["diminuendo)"] | ["downbow"] | ["emphasis"] | ["fermata"] | ["ffff"] | ["fff"] | ["ff"] | ["fine"] | ["invertedfermata"] | ["invertedturnx"] | ["invertedturn"] | ["longphrase"] | ["lowermordent"] }
gracing2 ==
    PRule("gracing2", PAlt(<<PLit(<<"d", "i", "m", "i", "n", "u", "e", "n", "d", "o",
    ")">>), PLit(<<"d", "o", "w", "n", "b", "o", "w">>), PLit(<<"e", "m", "p", "h", "a", "s",
    "i", "s">>), PLit(<<"f", "e", "r", "m", "a", "t", "a">>), PLit(<<"f", "f", "f", "f">>),
    PLit(<<"f", "f", "f">>), PLit(<<"f", "f">>), PLit(<<"f", "i", "n", "e">>), PLit(<<"i", "n",
    "v", "e", "r", "t", "e", "d", "f", "e", "r", "m", "a", "t", "a">>), PLit(<<"i", "n", "v",
    "e", "r", "t", "e", "d", "t", "u", "r", "n", "x">>), PLit(<<"i", "n", "v", "e", "r", "t",
    "e", "d", "t", "u", "r", "n">>), PLit(<<"l", "o", "n", "g", "p", "h", "r", "a", "s", "e">>),
    PLit(<<"l", "o", "w", "e", "r", "m", "o", "r", "d", "e", "n", "t">>)>>))

\* grammar.rs:187  gracing3 = { ["mediumphrase"] | ["mf"] | ["mordent"] | ["mp"] | ["open"] | ["plus"] | ["pppp"] | ["ppp"] | ["pp"] | ["pralltriller"] | ["roll"] | ["segno"] | ["sfz"] | ["shortphrase"] | ["slide"] | ["snap"] }
gracing3 ==
    PRule("gracing3", PAlt(<<PLit(<<"m", "e", "d", "i", "u", "m", "p", "h", "r", "a",
    "s", "e">>), PLit(<<"m", "f">>), PLit(<<"m", "o", "r", "d", "e", "n", "t">>), PLit(<<"m",
    "p">>), PLit(<<"o", "p", "e", "n">>), PLit(<<"p", "l", "u", "s">>), PLit(<<"p", "p", "p",
    "p">>), PLit(<<"p", "p", "p">>), PLit(<<"p", "p">>), PLit(<<"p", "r", "a", "l", "l", "t",
    "r", "i", "l", "l", "e", "r">>), PLit(<<"r", "o", "l", "l">>), PLit(<<"s", "e", "g", "n",
    "o">>), PLit(<<"s", "f", "z">>), PLit(<<"s", "h", "o", "r", "t", "p", "h", "r", "a", "s",
    "e">>), PLit(<<"s", "l", "i", "d", "e">>), PLit(<<"s", "n", "a", "p">>)>>))

\* grammar.rs:190  gracing4 = { ["tenuto"] | ["thumb"] | ["trill("] | ["trill)"] | ["trill"] | ["turnx"] | ["turn"] | ["upbow"] | ["uppermordent"] | ["wedge"] | ["+"] | ['0'..'5'] | ["<"] | [">"] | ["f"] | ["p"] }
gracing4 ==
    PRule("gracing4", PAlt(<<PLit(<<"t", "e", "n", "u", "t", "o">>), PLit(<<"t", "h",
    "u", "m", "b">>), PLit(<<"t", "r", "i", "l", "l", "(">>), PLit(<<"t", "r", "i", "l", "l",
    ")">>), PLit(<<"t", "r", "i", "l", "l">>), PLit(<<"t", "u", "r", "n", "x">>), PLit(<<"t",
    "u", "r", "n">>), PLit(<<"u", "p", "b", "o", "w">>), PLit(<<"u", "p", "p", "e", "r", "m",
    "o", "r", "d", "e", "n", "t">>), PLit(<<"w", "e", "d", "g", "e">>), PLit(<<"+">>),
    PRange("0", "5"), PLit(<<"<">>), PLit(<<">">>), PLit(<<"f">>), PLit(<<"p">>)>>))

\* grammar.rs:259  DIGITS = { ['0'..'9']+ }
DIGITS ==
    PRule("DIGITS", PPlus(PRange("0", "9")))

\* grammar.rs:193  gracing_nonstandard = { ["cresc"] | ["decresc"] | ["dimin"] | ["fp"] | ( ["repeatbar"] ~ DIGITS ) }
gracing_nonstandard ==
    PRule("gracing_nonstandard", PAlt(<<PLit(<<"c", "r", "e", "s", "c">>),
    PLit(<<"d", "e", "c", "r", "e", "s", "c">>), PLit(<<"d", "i", "m", "i", "n">>), PLit(<<"f",
    "p">>), PSeq(<<PLit(<<"r", "e", "p", "e", "a", "t", "b", "a", "r">>), DIGITS>>)>>))

\* grammar.rs:195  gracing_catchall = { ['"'..'~']+ }
gracing_catchall ==
    PRule("gracing_catchall", PPlus(PRange("\"", "~")))

\* grammar.rs:178  long_gracing = { ( ["!"] ~ ( gracing1 | gracing2 | gracing3 | gracing_nonstandard | gracing4 ) ~ ["!"] ) | ( ["!"] ~ gracing_catchall ~ ["!"] ) }
long_gracing ==
    PRule("long_gracing", PAlt(<<PSeq(<<PLit(<<"!">>), PAlt(<<gracing1, gracing2,
    gracing3, gracing_nonstandard, gracing4>>), PLit(<<"!">>)>>), PSeq(<<PLit(<<"!">>),
    gracing_catchall, PLit(<<"!">>)>>)>>))

\* grammar.rs:199  userdef_symbol = { ["~"] | ['H'..'Y'] | ['h'..'w'] }
userdef_symbol ==
    PRule("userdef_symbol", PAlt(<<PLit(<<"~">>), PRange("H", "Y"), PRange("h",
    "w")>>))

\* grammar.rs:30  gracing = { ["."] | userdef_symbol | long_gracing }
gracing ==
    PRule("gracing", PAlt(<<PLit(<<".">>), userdef_symbol, long_gracing>>))

\* grammar.rs:133  backquote = { ["`"] }
backquote ==
    PRule("backquote", PLit(<<"U+0060">>))

\* grammar.rs:251  reserved_char = { ["#"] | ["*"] | [";"] | ["?"] | ["@"] }
reserved_char ==
    PRule("reserved_char", PAlt(<<PLit(<<"#">>), PLit(<<"*">>), PLit(<<";">>),
    PLit(<<"?">>), PLit(<<"@">>)>>))

\* grammar.rs:32  unused_char = { reserved_char | backquote }
unused_char ==
    PRule("unused_char", PAlt(<<reserved_char, backquote>>))

\* grammar.rs:258  non_right_bracket = { !["]"] ~ any }
non_right_bracket ==
    PRule("non_right_bracket", PSeq(<<PNot(PLit(<<"]">>)), PAny>>))

\* grammar.rs:70  ifield_text = { ["["] ~ (["I"] | ["N"] | ["R"] | ["r"]) ~ [":"] ~ non_right_bracket+ ~ ["]"] }
ifield_text ==
    PRule("ifield_text", PSeq(<<PLit(<<"[">>), PAlt(<<PLit(<<"I">>),
    PLit(<<"N">>), PLit(<<"R">>), PLit(<<"r">>)>>), PLit(<<":">>), PPlus(non_right_bracket),
    PLit(<<"]">>)>>))

\* grammar.rs:55  major = { ["maj"] ~ (["o"] ~ ["r"]?)? }
major ==
    PRule("major", PSeq(<<PLit(<<"m", "a", "j">>), POpt(PSeq(<<PLit(<<"o">>),
    POpt(PLit(<<"r">>))>>))>>))

\* grammar.rs:56  lydian = { ["lyd"] ~ (["i"] ~ (["a"] ~ (["n"])?)?)? }
lydian ==
    PRule("lydian", PSeq(<<PLit(<<"l", "y", "d">>), POpt(PSeq(<<PLit(<<"i">>),
    POpt(PSeq(<<PLit(<<"a">>), POpt(PLit(<<"n">>))>>))>>))>>))

\* grammar.rs:57  ionian = { ["ion"] ~ (["i"] ~ (["a"] ~ (["n"])?)?)? }
ionian ==
    PRule("ionian", PSeq(<<PLit(<<"i", "o", "n">>), POpt(PSeq(<<PLit(<<"i">>),
    POpt(PSeq(<<PLit(<<"a">>), POpt(PLit(<<"n">>))>>))>>))>>))

\* grammar.rs:58  mixolydian = { ["mix"] ~ (["o"] ~ (["l"] ~ (["y"] ~ (["d"] ~ (["i"] ~ (["a"] ~ (["n"])?)?)?)?)?)?)? }
mixolydian ==
    PRule("mixolydian", PSeq(<<PLit(<<"m", "i", "x">>), POpt(PSeq(<<PLit(<<"o">>),
    POpt(PSeq(<<PLit(<<"l">>), POpt(PSeq(<<PLit(<<"y">>), POpt(PSeq(<<PLit(<<"d">>),
    POpt(PSeq(<<PLit(<<"i">>), POpt(PSeq(<<PLit(<<"a">>),
    POpt(PLit(<<"n">>))>>))>>))>>))>>))>>))>>))>>))

\* grammar.rs:59  dorian = { ["dor"] ~ (["i"] ~ (["a"] ~ (["n"])?)?)? }
dorian ==
    PRule("dorian", PSeq(<<PLit(<<"d", "o", "r">>), POpt(PSeq(<<PLit(<<"i">>),
    POpt(PSeq(<<PLit(<<"a">>), POpt(PLit(<<"n">>))>>))>>))>>))

\* grammar.rs:60  aeolian = { ["aeo"] ~ (["l"] ~ (["i"] ~ (["a"] ~ (["n"])?)?)?)? }
aeolian ==
    PRule("aeolian", PSeq(<<PLit(<<"a", "e", "o">>), POpt(PSeq(<<PLit(<<"l">>),
    POpt(PSeq(<<PLit(<<"i">>), POpt(PSeq(<<PLit(<<"a">>), POpt(PLit(<<"n">>))>>))>>))>>))>>))

\* grammar.rs:61  phrygian = { ["phr"] ~ (["y"] ~ (["g"] ~ (["i"] ~ (["a"] ~ (["n"])?)?)?)?)? }
phrygian ==
    PRule("phrygian", PSeq(<<PLit(<<"p", "h", "r">>), POpt(PSeq(<<PLit(<<"y">>),
    POpt(PSeq(<<PLit(<<"g">>), POpt(PSeq(<<PLit(<<"i">>), POpt(PSeq(<<PLit(<<"a">>),
    POpt(PLit(<<"n">>))>>))>>))>>))>>))>>))

\* grammar.rs:62  locrian = { ["loc"] ~ (["r"] ~ (["i"] ~ (["a"] ~ (["n"])?)?)?)? }
locrian ==
    PRule("locrian", PSeq(<<PLit(<<"l", "o", "c">>), POpt(PSeq(<<PLit(<<"r">>),
    POpt(PSeq(<<PLit(<<"i">>), POpt(PSeq(<<PLit(<<"a">>), POpt(PLit(<<"n">>))>>))>>))>>))>>))

\* grammar.rs:63  minor = { ["m"] ~ (["in"] ~ (["o"] ~ ["r"]?)?)? }
minor ==
    PRule("minor", PSeq(<<PLit(<<"m">>), POpt(PSeq(<<PLit(<<"i", "n">>),
    POpt(PSeq(<<PLit(<<"o">>), POpt(PLit(<<"r">>))>>))>>))>>))

\* grammar.rs:53  mode = { major | lydian | ionian | mixolydian | dorian | aeolian | phrygian | locrian | minor | ["exp"] }
mode ==
    PRule("mode", PAlt(<<major, lydian, ionian, mixolydian, dorian, aeolian, phrygian,
    locrian, minor, PLit(<<"e", "x", "p">>)>>))

\* grammar.rs:90  accidental = { ["^^"] | ["^"] | ["__"] | ["_"] | ["="] }
accidental ==
    PRule("accidental", PAlt(<<PLit(<<"^", "^">>), PLit(<<"^">>), PLit(<<"_",
    "_">>), PLit(<<"_">>), PLit(<<"=">>)>>))

\* grammar.rs:64  global_accidental = { accidental ~ basenote }
global_accidental ==
    PRule("global_accidental", PSeq(<<accidental, basenote>>))

\* WSP matched one character at a time instead of as a run
WSP_one_at_a_time ==
    PRule("WSP", PAlt(<<PLit(<<" ">>), PLit(<<"\t">>)>>))

\* grammar.rs:260  WSP = { ([" "] | ["\t"])+ }
WSP ==
    PRule("WSP", PPlus(PAlt(<<PLit(<<" ">>), PLit(<<"\t">>)>>)))

\* grammar.rs:51  key_def = { basenote ~ (["#"] | ["b"] | ["♯"] | ["♭"])? ~ ( WSP* ~ mode )? ~ ( WSP ~ ( WSP* ~ global_accidental )+ )* }
key_def ==
    PRule("key_def", PSeq(<<basenote, POpt(PAlt(<<PLit(<<"#">>), PLit(<<"b">>),
    PLit(<<"U+266F">>), PLit(<<"U+266D">>)>>)), POpt(PSeq(<<PStar(WSP), mode>>)),
    PStar(PSeq(<<WSP, PPlus(PSeq(<<PStar(WSP), global_accidental>>))>>))>>))

\* grammar.rs:123  clef_note = { ["G"] | ["C"] | ["F"] | ["P"] }
clef_note ==
    PRule("clef_note", PAlt(<<PLit(<<"G">>), PLit(<<"C">>), PLit(<<"F">>),
    PLit(<<"P">>)>>))

\* grammar.rs:124  clef_name = { ["treble"] | ["alto"] | ["tenor"] | ["bass"] | ["perc"] | ["none"] }
clef_name ==
    PRule("clef_name", PAlt(<<PLit(<<"t", "r", "e", "b", "l", "e">>), PLit(<<"a",
    "l", "t", "o">>), PLit(<<"t", "e", "n", "o", "r">>), PLit(<<"b", "a", "s", "s">>),
    PLit(<<"p", "e", "r", "c">>), PLit(<<"n", "o", "n", "e">>)>>))

\* grammar.rs:125  clef_line = { ['1'..'5'] }
clef_line ==
    PRule("clef_line", PRange("1", "5"))

\* grammar.rs:86  octave = { ["'"]+ | [","]+ }
octave ==
    PRule("octave", PAlt(<<PPlus(PLit(<<"'">>)), PPlus(PLit(<<",">>))>>))

\* grammar.rs:126  clef_middle = { ["middle="] ~ basenote ~ octave? }
clef_middle ==
    PRule("clef_middle", PSeq(<<PLit(<<"m", "i", "d", "d", "l", "e", "=">>),
    basenote, POpt(octave)>>))

\* grammar.rs:121  clef_spec = { ( ( ["clef="] ~ ( clef_note | clef_name ) ) | clef_name ) ~ clef_line? ~ ( ["+8"] | ["-8"] )? ~ ( WSP+ ~ clef_middle )? }
clef_spec ==
    PRule("clef_spec", PSeq(<<PAlt(<<PSeq(<<PLit(<<"c", "l", "e", "f", "=">>),
    PAlt(<<clef_note, clef_name>>)>>), clef_name>>), POpt(clef_line), POpt(PAlt(<<PLit(<<"+",
    "8">>), PLit(<<"-", "8">>)>>)), POpt(PSeq(<<PPlus(WSP), clef_middle>>))>>))

\* grammar.rs:127  clef_transpose = { ["transpose="] ~ ["-"]? ~ DIGITS }
clef_transpose ==
    PRule("clef_transpose", PSeq(<<PLit(<<"t", "r", "a", "n", "s", "p", "o",
    "s", "e", "=">>), POpt(PLit(<<"-">>)), DIGITS>>))

\* grammar.rs:128  clef_octave = { ["octave="] ~ ["-"]? ~ DIGITS }
clef_octave ==
    PRule("clef_octave", PSeq(<<PLit(<<"o", "c", "t", "a", "v", "e", "=">>),
    POpt(PLit(<<"-">>)), DIGITS>>))

\* grammar.rs:129  clef_stafflines = { ["stafflines="] ~ DIGITS }
clef_stafflines ==
    PRule("clef_stafflines", PSeq(<<PLit(<<"s", "t", "a", "f", "f", "l", "i",
    "n", "e", "s", "=">>), DIGITS>>))

\* grammar.rs:119  clef = { ( clef_spec | clef_middle | clef_transpose | clef_octave | clef_stafflines ) ~ ( WSP+ ~ clef )? }
clef ==
    PRule("clef", PSeq(<<PAlt(<<clef_spec, clef_middle, clef_transpose, clef_octave,
    clef_stafflines>>), POpt(PSeq(<<PPlus(WSP), PRef("clef")>>))>>))

\* grammar.rs:50  key = { ( key_def ~ ( WSP+ ~ clef )? ) | clef | ["HP"] | ["Hp"] }
key ==
    PRule("key", PAlt(<<PSeq(<<key_def, POpt(PSeq(<<PPlus(WSP), clef>>))>>), clef,
    PLit(<<"H", "P">>), PLit(<<"H", "p">>)>>))

\* grammar.rs:71  ifield_key = { ["[K:"] ~ WSP* ~ ( ["none"] | key? ) ~ ["]"] }
ifield_key ==
    PRule("ifield_key", PSeq(<<PLit(<<"[", "K", ":">>), PStar(WSP),
    PAlt(<<PLit(<<"n", "o", "n", "e">>), POpt(key)>>), PLit(<<"]">>)>>))

\* grammar.rs:104  note_length_strict = { ( DIGITS ~ ["/"] ~ DIGITS ) | ["1"] }
note_length_strict ==
    PRule("note_length_strict", PAlt(<<PSeq(<<DIGITS, PLit(<<"/">>),
    DIGITS>>), PLit(<<"1">>)>>))

\* grammar.rs:72  ifield_length = { ["[L:"] ~ WSP* ~ note_length_strict ~ ["]"] }
ifield_length ==
    PRule("ifield_length", PSeq(<<PLit(<<"[", "L", ":">>), PStar(WSP),
    note_length_strict, PLit(<<"]">>)>>))

\* grammar.rs:37  meter_num = { ( ( ["("] ~ WSP* ~ DIGITS ~ (WSP* ~ ["+"] ~ WSP* ~ DIGITS)* ~ WSP* ~ [")"] ) | ( DIGITS ~ (WSP* ~ ["+"] ~ WSP* ~ DIGITS)* ) ) ~ WSP* ~ ["/"] ~ WSP* ~ DIGITS }
meter_num ==
    PRule("meter_num", PSeq(<<PAlt(<<PSeq(<<PLit(<<"(">>), PStar(WSP), DIGITS,
    PStar(PSeq(<<PStar(WSP), PLit(<<"+">>), PStar(WSP), DIGITS>>)), PStar(WSP), PLit(<<")">>)>>),
    PSeq(<<DIGITS, PStar(PSeq(<<PStar(WSP), PLit(<<"+">>), PStar(WSP), DIGITS>>))>>)>>),
    PStar(WSP), PLit(<<"/">>), PStar(WSP), DIGITS>>))

\* grammar.rs:36  meter = { meter_num | ( (["C"] | ["c"]) ~ ["|"]? ) | ["none"] }
meter ==
    PRule("meter", PAlt(<<meter_num, PSeq(<<PAlt(<<PLit(<<"C">>), PLit(<<"c">>)>>),
    POpt(PLit(<<"|">>))>>), PLit(<<"n", "o", "n", "e">>)>>))

\* grammar.rs:73  ifield_meter = { ["[M:"] ~ WSP* ~ meter ~ ["]"] }
ifield_meter ==
    PRule("ifield_meter", PSeq(<<PLit(<<"[", "M", ":">>), PStar(WSP), meter,
    PLit(<<"]">>)>>))

\* grammar.rs:77  ifield_part = { ["[P:"] ~ non_right_bracket+ ~  ["]"] }
ifield_part ==
    PRule("ifield_part", PSeq(<<PLit(<<"[", "P", ":">>), PPlus(non_right_bracket),
    PLit(<<"]">>)>>))

\* grammar.rs:98  note_length_bigger = { DIGITS }
note_length_bigger ==
    PRule("note_length_bigger", DIGITS)

\* grammar.rs:99  note_length_smaller = { ["/"] ~ DIGITS }
note_length_smaller ==
    PRule("note_length_smaller", PSeq(<<PLit(<<"/">>), DIGITS>>))

\* grammar.rs:100  note_length_full = { DIGITS ~ ["/"] ~ DIGITS }
note_length_full ==
    PRule("note_length_full", PSeq(<<DIGITS, PLit(<<"/">>), DIGITS>>))

\* grammar.rs:101  note_length_slashes = { ["/"]+ }
note_length_slashes ==
    PRule("note_length_slashes", PPlus(PLit(<<"/">>)))

\* note_length with the bare numerator tried before digits/digits
note_length_bigger_before_full ==
    PRule("note_length", PAlt(<<note_length_smaller, note_length_bigger,
    note_length_full, note_length_slashes>>))

\* grammar.rs:97  note_length = { note_length_smaller | note_length_full | note_length_bigger | note_length_slashes }
note_length ==
    PRule("note_length", PAlt(<<note_length_smaller, note_length_full,
    note_length_bigger, note_length_slashes>>))

\* grammar.rs:44  tempo_spec = { ( note_length_strict ~ ["="] ~ DIGITS ) | ( (["C"] | ["c"]) ~ note_length? ~ ["="] ~ DIGITS ) | DIGITS }
tempo_spec ==
    PRule("tempo_spec", PAlt(<<PSeq(<<note_length_strict, PLit(<<"=">>), DIGITS>>),
    PSeq(<<PAlt(<<PLit(<<"C">>), PLit(<<"c">>)>>), POpt(note_length), PLit(<<"=">>), DIGITS>>),
    DIGITS>>))

\* grammar.rs:46  tempo_desc = { ["\""] ~ non_quote* ~ ["\""] }
tempo_desc ==
    PRule("tempo_desc", PSeq(<<PLit(<<"\"">>), PStar(non_quote),
    PLit(<<"\"">>)>>))

\* grammar.rs:43  tempo = { ( tempo_spec ~ ( WSP+ ~ tempo_desc )? ) | ( tempo_desc ~ ( WSP+ ~ tempo_spec )? ) }
tempo ==
    PRule("tempo", PAlt(<<PSeq(<<tempo_spec, POpt(PSeq(<<PPlus(WSP), tempo_desc>>))>>),
    PSeq(<<tempo_desc, POpt(PSeq(<<PPlus(WSP), tempo_spec>>))>>)>>))

\* grammar.rs:78  ifield_tempo = { ["[Q:"] ~ WSP* ~ tempo ~ ["]"] }
ifield_tempo ==
    PRule("ifield_tempo", PSeq(<<PLit(<<"[", "Q", ":">>), PStar(WSP), tempo,
    PLit(<<"]">>)>>))

\* grammar.rs:79  ifield_userdef = { ["[U:"] ~ non_right_bracket+ ~ ["]"] }
ifield_userdef ==
    PRule("ifield_userdef", PSeq(<<PLit(<<"[", "U", ":">>),
    PPlus(non_right_bracket), PLit(<<"]">>)>>))

\* grammar.rs:241  voice = { (!([" "] | ["]"]) ~ any)+ ~ ( WSP+ ~ (!([" "] | ["="] | ["]"]) ~ any)+ ~ ["="] ~ ( ( ["\""] ~ non_quote* ~ ["\""] ) | (!([" "] | ["]"]) ~ any)+ ) )* }
voice ==
    PRule("voice", PSeq(<<PPlus(PSeq(<<PNot(PAlt(<<PLit(<<" ">>), PLit(<<"]">>)>>)),
    PAny>>)), PStar(PSeq(<<PPlus(WSP), PPlus(PSeq(<<PNot(PAlt(<<PLit(<<" ">>), PLit(<<"=">>),
    PLit(<<"]">>)>>)), PAny>>)), PLit(<<"=">>), PAlt(<<PSeq(<<PLit(<<"\"">>), PStar(non_quote),
    PLit(<<"\"">>)>>), PPlus(PSeq(<<PNot(PAlt(<<PLit(<<" ">>), PLit(<<"]">>)>>)),
    PAny>>))>>)>>))>>))

\* grammar.rs:80  ifield_voice = { ["[V:"] ~ WSP* ~ voice ~ ["]"] }
ifield_voice ==
    PRule("ifield_voice", PSeq(<<PLit(<<"[", "V", ":">>), PStar(WSP), voice,
    PLit(<<"]">>)>>))

\* grammar.rs:68  inline_field = { ifield_text | ifield_key | ifield_length | ifield_meter | ifield_part | ifield_tempo | ifield_userdef | ifield_voice }
inline_field ==
    PRule("inline_field", PAlt(<<ifield_text, ifield_key, ifield_length,
    ifield_meter, ifield_part, ifield_tempo, ifield_userdef, ifield_voice>>))

\* grammar.rs:109  b_sep = { (["<"] | [">"]) }
b_sep ==
    PRule("b_sep", PAlt(<<PLit(<<"<">>), PLit(<<">">>)>>))

\* grammar.rs:157  slur_begin = { ["("] }
slur_begin ==
    PRule("slur_begin", PLit(<<"(">>))

\* grammar.rs:158  slur_end = { [")"] }
slur_end ==
    PRule("slur_end", PLit(<<")">>))

\* grammar.rs:84  pitch = { accidental? ~ basenote ~ octave? }
pitch ==
    PRule("pitch", PSeq(<<POpt(accidental), basenote, POpt(octave)>>))

\* grammar.rs:166  grace_note = { pitch ~ note_length? }
grace_note ==
    PRule("grace_note", PSeq(<<pitch, POpt(note_length)>>))

\* grammar.rs:165  grace_note_stem = { grace_note | ( ["["] ~ grace_note ~ grace_note+ ~ ["]"] ) }
grace_note_stem ==
    PRule("grace_note_stem", PAlt(<<grace_note, PSeq(<<PLit(<<"[">>),
    grace_note, PPlus(grace_note), PLit(<<"]">>)>>)>>))

\* grammar.rs:167  acciaccatura = { ["/"] }
acciaccatura ==
    PRule("acciaccatura", PLit(<<"/">>))

\* grammar.rs:164  grace_notes = { ["{"] ~ acciaccatura? ~ grace_note_stem+ ~ ["}"] }
grace_notes ==
    PRule("grace_notes", PSeq(<<PLit(<<"{">>), POpt(acciaccatura),
    PPlus(grace_note_stem), PLit(<<"}">>)>>))

\* grammar.rs:110  b_elem = { WSP | chord_or_text | gracing | grace_notes | slur_begin | slur_end }
b_elem ==
    PRule("b_elem", PAlt(<<WSP, chord_or_text, gracing, grace_notes, slur_begin,
    slur_end>>))

\* grammar.rs:156  tie = { ["-"] }
tie ==
    PRule("tie", PLit(<<"-">>))

\* grammar.rs:31  note = { pitch ~ note_length? ~ tie? }
note ==
    PRule("note", PSeq(<<pitch, POpt(note_length), POpt(tie)>>))

\* grammar.rs:114  rest = { ( ["x"] | ["y"] | ["z"] ) ~ note_length? }
rest ==
    PRule("rest", PSeq(<<PAlt(<<PLit(<<"x">>), PLit(<<"y">>), PLit(<<"z">>)>>),
    POpt(note_length)>>))

\* grammar.rs:204  stem = { ( ["["] ~ note ~ note+ ~ ["]"] ~ tie? ) | note | rest }
stem ==
    PRule("stem", PAlt(<<PSeq(<<PLit(<<"[">>), note, PPlus(note), PLit(<<"]">>),
    POpt(tie)>>), note, rest>>))

\* grammar.rs:108  broken_rhythm = { stem ~ b_elem* ~ b_sep ~ b_sep? ~ b_sep? ~ b_elem* ~ stem }
broken_rhythm ==
    PRule("broken_rhythm", PSeq(<<stem, PStar(b_elem), b_sep, POpt(b_sep),
    POpt(b_sep), PStar(b_elem), stem>>))

\* grammar.rs:115  multi_measure_rest = { ["Z"] ~ ['0'..'9']* }
multi_measure_rest ==
    PRule("multi_measure_rest", PSeq(<<PLit(<<"Z">>), PStar(PRange("0",
    "9"))>>))

\* grammar.rs:147  nth_repeat_num = { DIGITS ~ ( ( [","] | ["-"] ) ~ DIGITS )* }
nth_repeat_num ==
    PRule("nth_repeat_num", PSeq(<<DIGITS, PStar(PSeq(<<PAlt(<<PLit(<<",">>),
    PLit(<<"-">>)>>), DIGITS>>))>>))

\* grammar.rs:148  nth_repeat_text = { ["\""] ~ non_quote* ~ ["\""] }
nth_repeat_text ==
    PRule("nth_repeat_text", PSeq(<<PLit(<<"\"">>), PStar(non_quote),
    PLit(<<"\"">>)>>))

\* grammar.rs:146  nth_repeat = { ["["] ~ ( nth_repeat_num | nth_repeat_text ) }
nth_repeat ==
    PRule("nth_repeat", PSeq(<<PLit(<<"[">>), PAlt(<<nth_repeat_num,
    nth_repeat_text>>)>>))

\* grammar.rs:149  end_nth_repeat = { ["]"] }
end_nth_repeat ==
    PRule("end_nth_repeat", PLit(<<"]">>))

\* grammar.rs:173  tuplet = { ["("] ~ DIGITS ~ ( [":"] ~ DIGITS? ~ [":"] ~ DIGITS? )? }
tuplet ==
    PRule("tuplet", PSeq(<<PLit(<<"(">>), DIGITS, POpt(PSeq(<<PLit(<<":">>),
    POpt(DIGITS), PLit(<<":">>), POpt(DIGITS)>>))>>))

\* grammar.rs:237  hard_line_break = { ["$"] | ["!"] }
hard_line_break ==
    PRule("hard_line_break", PAlt(<<PLit(<<"$">>), PLit(<<"!">>)>>))

\* grammar.rs:247  rollback = { ["&"] }
rollback ==
    PRule("rollback", PLit(<<"&">>))

\* grammar.rs:256  measure_repeat = { ["/"] ~ ["/"]? }
measure_repeat ==
    PRule("measure_repeat", PSeq(<<PLit(<<"/">>), POpt(PLit(<<"/">>))>>))

\* element with its last alternative, unused_char, left out
element_without_unused_char ==
    PRule("element", PAlt(<<broken_rhythm, stem, WSP, chord_or_text, gracing,
    grace_notes, tuplet, slur_begin, slur_end, rollback, multi_measure_rest, measure_repeat,
    nth_repeat, end_nth_repeat, inline_field, hard_line_break>>))

\* grammar.rs:24  element = { broken_rhythm | stem | WSP | chord_or_text | gracing | grace_notes | tuplet | slur_begin | slur_end | rollback | multi_measure_rest | measure_repeat | nth_repeat | end_nth_repeat | inline_field | hard_line_break | unused_char }
element ==
    PRule("element", PAlt(<<broken_rhythm, stem, WSP, chord_or_text, gracing,
    grace_notes, tuplet, slur_begin, slur_end, rollback, multi_measure_rest, measure_repeat,
    nth_repeat, end_nth_repeat, inline_field, hard_line_break, unused_char>>))

\* grammar.rs:140  invisible_barline = { ["[|]"] | ["[]"] }
invisible_barline ==
    PRule("invisible_barline", PAlt(<<PLit(<<"[", "|", "]">>), PLit(<<"[",
    "]">>)>>))

\* grammar.rs:141  double_repeat_barline = { ["::"] }
double_repeat_barline ==
    PRule("double_repeat_barline", PLit(<<":", ":">>))

\* grammar.rs:142  dashed_barline = { [":"] }
dashed_barline ==
    PRule("dashed_barline", PLit(<<":">>))

\* grammar.rs:137  barline = { invisible_barline | ( [":"]* ~ ["["]? ~ ( ["."]? ~ ["|"] )+ ~ ( ["]"] | [":"]+ | nth_repeat_num )? ) | double_repeat_barline | dashed_barline }
barline ==
    PRule("barline", PAlt(<<invisible_barline, PSeq(<<PStar(PLit(<<":">>)),
    POpt(PLit(<<"[">>)), PPlus(PSeq(<<POpt(PLit(<<".">>)), PLit(<<"|">>)>>)),
    POpt(PAlt(<<PLit(<<"]">>), PPlus(PLit(<<":">>)), nth_repeat_num>>))>>),
    double_repeat_barline, dashed_barline>>))

\* grammar.rs:234  line_continuation = { ["\\"] }
line_continuation ==
    PRule("line_continuation", PLit(<<"\\">>))

\* grammar.rs:233  abc_eol = { line_continuation? ~ WSP* }
abc_eol ==
    PRule("abc_eol", PSeq(<<POpt(line_continuation), PStar(WSP)>>))

\* grammar.rs:21  abc_line = { ( ( barline? ~ element+ ~ (barline ~ element+)* ~ barline? ) | barline ) ~ abc_eol }
abc_line ==
    PRule("abc_line", PSeq(<<PAlt(<<PSeq(<<POpt(barline), PPlus(element),
    PStar(PSeq(<<barline, PPlus(element)>>)), POpt(barline)>>), barline>>), abc_eol>>))

\* grammar.rs:19  music_code_line = { abc_line ~ eoi }
music_code_line ==
    PRule("music_code_line", PSeq(<<abc_line, PEoi>>))
----------------------------------------------------------------------------
(* The matcher the grammar! macro generates: ordered choice, greedy        *)
(* repetition, lookahead that consumes nothing.  A successful rule puts    *)
(* its token before the tokens of the rules matched inside it (the macro   *)
(* inserts it at the queue length the rule started with); a failed         *)
(* sequence or rule restores the position and truncates the queue.         *)

Token(rule, start, end) == [rule |-> rule, start |-> start, end |-> end]

MatchOk(pos, toks) == [ok |-> TRUE, pos |-> pos, toks |-> toks]

MatchFail == [ok |-> FALSE, pos |-> 0, toks |-> <<>>]

RECURSIVE Match(_, _, _)
Match(e, s, p) ==
    CASE e.t = "rule" ->
            LET r == Match(e.body, s, p) IN
            IF r.ok THEN MatchOk(r.pos, <<Token(e.name, p, r.pos)>> \o r.toks)
            ELSE MatchFail
      [] e.t = "alt" ->
            LET a == Match(e.a, s, p) IN
            IF a.ok THEN a ELSE Match(e.b, s, p)
      [] e.t = "seq" ->
            LET a == Match(e.a, s, p) IN
            IF ~a.ok THEN MatchFail
            ELSE LET b == Match(e.b, s, a.pos) IN
                 IF b.ok THEN MatchOk(b.pos, a.toks \o b.toks) ELSE MatchFail
      [] e.t = "lit" ->
            IF p + Len(e.cs) <= Len(s) /\ \A k \in 1..Len(e.cs) : s[p + k] = e.cs[k]
            THEN MatchOk(p + Len(e.cs), <<>>) ELSE MatchFail
      [] e.t = "opt" ->
            LET a == Match(e.a, s, p) IN
            IF a.ok THEN a ELSE MatchOk(p, <<>>)
      [] e.t = "star" ->
            LET a == Match(e.a, s, p) IN
            IF ~a.ok THEN MatchOk(p, <<>>)
            ELSE LET r == Match(e, s, a.pos) IN MatchOk(r.pos, a.toks \o r.toks)
      [] e.t = "set" ->
            IF p < Len(s) /\ s[p + 1] \in e.cs THEN MatchOk(p + 1, <<>>) ELSE MatchFail
      [] e.t = "plus" ->
            LET a == Match(e.a, s, p) IN
            IF ~a.ok THEN MatchFail
            ELSE LET r == Match(PStar(e.a), s, a.pos) IN MatchOk(r.pos, a.toks \o r.toks)
      [] e.t = "not" ->
            IF Match(e.a, s, p).ok THEN MatchFail ELSE MatchOk(p, <<>>)
      [] e.t = "any" ->
            IF p < Len(s) THEN MatchOk(p + 1, <<>>) ELSE MatchFail
      [] e.t = "eoi" ->
            IF p = Len(s) THEN MatchOk(p, <<>>) ELSE MatchFail
      [] e.t = "ref" -> Match(clef, s, p)

----------------------------------------------------------------------------
(* RSlice and RString (visitors.rs): a result is either a slice of the     *)
(* input, kept as its two offsets, or an owned string.                     *)

from_slice(start, end) == [k |-> "Slice", start |-> start, end |-> end, s |-> <<>>]

from_str(s) == [k |-> "Str", start |-> 0, end |-> 0, s |-> s]

\* &input[start..end]
Slice(inp, start, end) == SubSeq(inp, start + 1, end)

to_string(r, inp) == IF r.k = "Slice" THEN Slice(inp, r.start, r.end) ELSE r.s

\* add whose merge of two adjacent slices keeps the left slice's end
add_merge_not_extended(l, r, inp) ==
    CASE l.k = "Slice" /\ r.k = "Slice" ->
            IF l.end = r.start THEN from_slice(l.start, l.end)
            ELSE from_str(Slice(inp, l.start, l.end) \o Slice(inp, r.start, r.end))
      [] l.k = "Slice" /\ r.k = "Str" -> from_str(Slice(inp, l.start, l.end) \o r.s)
      [] l.k = "Str" /\ r.k = "Slice" -> from_str(l.s \o Slice(inp, r.start, r.end))
      [] l.k = "Str" /\ r.k = "Str" -> from_str(l.s \o r.s)

add(l, r, inp) ==
    CASE l.k = "Slice" /\ r.k = "Slice" ->
            IF l.end = r.start THEN from_slice(l.start, r.end)
            ELSE from_str(Slice(inp, l.start, l.end) \o Slice(inp, r.start, r.end))
      [] l.k = "Slice" /\ r.k = "Str" -> from_str(Slice(inp, l.start, l.end) \o r.s)
      [] l.k = "Str" /\ r.k = "Slice" -> from_str(l.s \o Slice(inp, r.start, r.end))
      [] l.k = "Str" /\ r.k = "Str" -> from_str(l.s \o r.s)

\* char::is_whitespace, on the characters a text of the model can hold
White_Space == {" ", "\t", "\n", "\r", "\f"}

RECURSIVE trim_start(_)
trim_start(s) ==
    IF s # <<>> /\ Head(s) \in White_Space THEN trim_start(Tail(s)) ELSE s

RECURSIVE trim_end(_)
trim_end(s) ==
    IF s # <<>> /\ s[Len(s)] \in White_Space THEN trim_end(SubSeq(s, 1, Len(s) - 1)) ELSE s

\* str::trim: leading and trailing whitespace removed
trim(s) == trim_end(trim_start(s))

----------------------------------------------------------------------------
(* The parse tree visitors.  tq is the token queue and At(tq, k) its       *)
(* element k, counted from 0 as in the code.  Each visitor returns the     *)
(* RString, the index of the next token to visit, and, for the record, the *)
(* indices handed to _recurse_children on the way, in call order.          *)

At(tq, k) == tq[k + 1]

Visited(rstr, new_i, seen) == [rstr |-> rstr, i |-> new_i, calls |-> seen]

RECURSIVE _recurse_children(_, _, _, _)
RECURSIVE _gather_children(_, _, _, _)
RECURSIVE gather_rest(_, _, _, _, _, _, _, _)

\* gather_rest that leaves out the text after the last child
gather_rest_no_text_after(k, tq, qlen, inp, child_i, text_offset, rstr, seen) ==
    IF child_i < qlen /\ At(tq, child_i).start < At(tq, k).end
    THEN LET before == IF text_offset < At(tq, child_i).start
                       THEN add(rstr, from_slice(text_offset, At(tq, child_i).start), inp)
                       ELSE rstr
             child == _recurse_children(child_i, tq, qlen, inp)
         IN  gather_rest(k, tq, qlen, inp, child.i, At(tq, child_i).end,
                         add(before, child.rstr, inp), seen \o child.calls)
    ELSE Visited(rstr, child_i, seen)

\* _gather_children that leaves out the text before the first child
_gather_children_no_text_before(k, tq, qlen, inp) ==
    LET child_i == k + 1 IN
    IF child_i < qlen /\ At(tq, child_i).start < At(tq, k).end
    THEN LET child == _recurse_children(child_i, tq, qlen, inp) IN
         gather_rest(k, tq, qlen, inp, child.i, At(tq, child_i).end, child.rstr, child.calls)
    ELSE Visited(from_slice(At(tq, k).start, At(tq, k).end), k + 1, <<>>)

\* _recurse_children that returns every WSP span as it is, never squashed
_recurse_children_wsp_kept(k, tq, qlen, inp) ==
    CASE At(tq, k).rule = "abc_eol" ->
            LET g == _gather_children(k, tq, qlen, inp) IN
            Visited(from_str(trim(to_string(g.rstr, inp))), g.i, <<k>> \o g.calls)
      [] At(tq, k).rule = "chord_newline" ->
            Visited(from_str(<<";">>), k + 1, <<k>>)
      [] At(tq, k).rule = "WSP" ->
            Visited(from_slice(At(tq, k).start, At(tq, k).end), k + 1, <<k>>)
      [] OTHER ->
            LET x == _gather_children(k, tq, qlen, inp) IN
            Visited(x.rstr, x.i, <<k>> \o x.calls)

\* _recurse_children whose default rule returns the next index, not the
\* index after the token's children
_recurse_children_next_index(k, tq, qlen, inp) ==
    CASE At(tq, k).rule = "abc_eol" ->
            LET g == _gather_children(k, tq, qlen, inp) IN
            Visited(from_str(trim(to_string(g.rstr, inp))), g.i, <<k>> \o g.calls)
      [] At(tq, k).rule = "chord_newline" ->
            Visited(from_str(<<";">>), k + 1, <<k>>)
      [] At(tq, k).rule = "WSP" ->
            IF Slice(inp, At(tq, k).start, At(tq, k).end) = <<" ">>
            THEN Visited(from_slice(At(tq, k).start, At(tq, k).end), k + 1, <<k>>)
            ELSE Visited(from_str(<<" ">>), k + 1, <<k>>)
      [] OTHER ->
            LET x == _gather_children(k, tq, qlen, inp) IN
            Visited(x.rstr, k + 1, <<k>> \o x.calls)

\* the while loop of _gather_children and the text after the last child
gather_rest(k, tq, qlen, inp, child_i, text_offset, rstr, seen) ==
    IF child_i < qlen /\ At(tq, child_i).start < At(tq, k).end
    THEN LET before == IF text_offset < At(tq, child_i).start
                       THEN add(rstr, from_slice(text_offset, At(tq, child_i).start), inp)
                       ELSE rstr
             child == _recurse_children(child_i, tq, qlen, inp)
         IN  gather_rest(k, tq, qlen, inp, child.i, At(tq, child_i).end,
                         add(before, child.rstr, inp), seen \o child.calls)
    ELSE Visited(IF text_offset < At(tq, k).end
                 THEN add(rstr, from_slice(text_offset, At(tq, k).end), inp)
                 ELSE rstr,
                 child_i, seen)

_gather_children(k, tq, qlen, inp) ==
    LET child_i == k + 1 IN
    IF child_i < qlen /\ At(tq, child_i).start < At(tq, k).end
    THEN LET text_offset == At(tq, k).start
             child == _recurse_children(child_i, tq, qlen, inp)
             rstr == IF text_offset < At(tq, child_i).start
                     THEN add(from_slice(text_offset, At(tq, child_i).start), child.rstr, inp)
                     ELSE child.rstr
         IN  gather_rest(k, tq, qlen, inp, child.i, At(tq, child_i).end, rstr, child.calls)
    ELSE Visited(from_slice(At(tq, k).start, At(tq, k).end), k + 1, <<>>)

_recurse_children(k, tq, qlen, inp) ==
    CASE At(tq, k).rule = "abc_eol" ->
            LET g == _gather_children(k, tq, qlen, inp) IN
            Visited(from_str(trim(to_string(g.rstr, inp))), g.i, <<k>> \o g.calls)
      [] At(tq, k).rule = "chord_newline" ->
            Visited(from_str(<<";">>), k + 1, <<k>>)
      [] At(tq, k).rule = "WSP" ->
            IF Slice(inp, At(tq, k).start, At(tq, k).end) = <<" ">>
            THEN Visited(from_slice(At(tq, k).start, At(tq, k).end), k + 1, <<k>>)
            ELSE Visited(from_str(<<" ">>), k + 1, <<k>>)
      [] OTHER ->
            LET x == _gather_children(k, tq, qlen, inp) IN
            Visited(x.rstr, x.i, <<k>> \o x.calls)

----------------------------------------------------------------------------
(* The canonifier as a state machine.  One line is parsed (Parse) and, if  *)
(* the grammar accepts it, walked by visit_parse_tree, one top-level token *)
(* per step (VisitStep) until the queue is exhausted (VisitEnd).  Again    *)
(* feeds the canonical text back in as the next line, which is how         *)
(* "canonicalizing an already-canonical line" is observed.                 *)
(*   line    the line as given                                             *)
(*   input   the text being parsed: the line, then its canonical text      *)
(*   pc      "ready", "visit", "done", or "error" (the SyntaxError)        *)
(*   q       the token queue of the parse                                  *)
(*   i       visit_parse_tree's index into the queue                       *)
(*   result  visit_parse_tree's result string so far                       *)
(*   tops    the indices visit_parse_tree handed to _recurse_children      *)
(*   calls   every index handed to _recurse_children, in call order        *)
(*   pass    1 for the line as given, 2 for its canonical text fed back    *)
(*   first   the canonical text of pass 1                                  *)

MaxPieces == 4

Alphabet == {"A", " ", "\t", "\"", ";", "\\", "|"}

\* a character of the alphabet, or the two-character newline marker
Pieces == {<<c>> : c \in Alphabet} \cup {<<"\\", "n">>}

RECURSIVE Texts(_)
Texts(n) ==
    IF n = 0 THEN {<<>>}
    ELSE LET S == Texts(n - 1) IN S \cup {s \o p : s \in S, p \in Pieces}

\* the lines tried: every text of up to MaxPieces pieces, and every text
\* of fewer pieces between double quotes
Lines ==
    Texts(MaxPieces) \cup {<<"\"">> \o s \o <<"\"">> : s \in Texts(MaxPieces - 1)}

Init ==
    /\ line \in Lines
    /\ input = line
    /\ pc = "ready"
    /\ q = <<>>
    /\ i = 0
    /\ result = <<>>
    /\ calls = <<>>
    /\ tops = <<>>
    /\ pass = 1
    /\ first = <<>>

Parse ==
    /\ pc = "ready"
    /\ LET r == Match(music_code_line, input, 0) IN
       IF r.ok THEN pc' = "visit" /\ q' = r.toks
       ELSE pc' = "error" /\ q' = <<>>
    /\ i' = 0
    /\ result' = <<>>
    /\ calls' = <<>>
    /\ tops' = <<>>
    /\ UNCHANGED <<line, input, pass, first>>

\* VisitStep that goes on to the next token instead of to new_i
VisitStep_next_token ==
    /\ pc = "visit"
    /\ i < Len(q)
    /\ LET r == _recurse_children(i, q, Len(q), input) IN
       /\ i' = i + 1
       /\ result' = result \o to_string(r.rstr, input)
       /\ calls' = calls \o r.calls
    /\ tops' = Append(tops, i)
    /\ UNCHANGED <<line, input, pc, q, pass, first>>

\* one iteration of visit_parse_tree's while loop
VisitStep ==
    /\ pc = "visit"
    /\ i < Len(q)
    /\ LET r == _recurse_children(i, q, Len(q), input) IN
       /\ i' = r.i
       /\ result' = result \o to_string(r.rstr, input)
       /\ calls' = calls \o r.calls
    /\ tops' = Append(tops, i)
    /\ UNCHANGED <<line, input, pc, q, pass, first>>

\* the loop's exit: visit_parse_tree returns result
VisitEnd ==
    /\ pc = "visit"
    /\ ~(i < Len(q))
    /\ pc' = "done"
    /\ UNCHANGED <<line, input, q, i, result, calls, tops, pass, first>>

Again ==
    /\ pc = "done"
    /\ pass = 1
    /\ input' = result
    /\ first' = result
    /\ pass' = 2
    /\ pc' = "ready"
    /\ UNCHANGED <<line, q, i, result, calls, tops>>

Next == Parse \/ VisitStep \/ VisitEnd \/ Again

Spec == Init /\ [][Next]_vars

----------------------------------------------------------------------------
(* The visitors on token queues of any shape.  visit_parse_tree reads only *)
(* the queue and the input, so it is also run on every queue of up to      *)
(* MaxTokens tokens over TraceText whose tokens are ordered by start and   *)
(* whose ranges are pairwise nested or disjoint; the queues the grammar    *)
(* produces are among these.                                               *)

MaxTokens == 3

TraceText == <<"a", " ", "b">>

TraceRules == {"note", "WSP", "chord_newline", "abc_eol"}

TraceSpans ==
    {sp \in (0..Len(TraceText)) \X (0..Len(TraceText)) : sp[1] <= sp[2]}

TraceTokens == {Token(r, sp[1], sp[2]) : r \in TraceRules, sp \in TraceSpans}

NestedIn(a, b) == b.start <= a.start /\ a.end <= b.end

\* token t may follow token e: not before it, and never partially overlapping it
MayFollow(e, t) ==
    /\ e.start <= t.start
    /\ (t.start >= e.end \/ NestedIn(t, e) \/ NestedIn(e, t))

\* the queues of up to n tokens, each token one that may follow all before it
RECURSIVE Traces(_)
Traces(n) ==
    IF n = 0 THEN {<<>>}
    ELSE LET S == Traces(n - 1) IN
         S \cup {Append(pr[1], pr[2]) :
                    pr \in {x \in S \X TraceTokens :
                              \A a \in 1..Len(x[1]) : MayFollow(x[1][a], x[2])}}

InitTrace ==
    /\ line = TraceText
    /\ input = TraceText
    /\ pc = "visit"
    /\ q \in Traces(MaxTokens)
    /\ i = 0
    /\ result = <<>>
    /\ calls = <<>>
    /\ tops = <<>>
    /\ pass = 1
    /\ first = <<>>

NextTrace == VisitStep \/ VisitEnd

SpecTrace == InitTrace /\ [][NextTrace]_vars

----------------------------------------------------------------------------
(* What the claims speak of.                                               *)

Accepted == pc \in {"visit", "done"}

TokenIdx == 0..(Len(q) - 1)

Blank == {" ", "\t"}

\* token k lies in the subtree of an earlier token of the rule named
Inside(k, name) ==
    \E j \in TokenIdx :
        /\ j < k
        /\ At(q, j).rule = name
        /\ At(q, j).start <= At(q, k).start
        /\ At(q, k).start < At(q, j).end

HasRule(names) == \E k \in TokenIdx : At(q, k).rule \in names

Count(s, c) == Cardinality({k \in 1..Len(s) : s[k] = c})

\* no tab, and no two blanks side by side
NoBlankRun(s) ==
    \A k \in 1..Len(s) :
        /\ s[k] # "\t"
        /\ k < Len(s) => ~(s[k] \in Blank /\ s[k + 1] \in Blank)

----------------------------------------------------------------------------
\* C1: for every accepted input the canonical output has no trailing
\* whitespace: it never ends with a space or a tab.
C1_NoTrailingWhitespace ==
    pc = "done" => (result = <<>> \/ result[Len(result)] \notin Blank)

----------------------------------------------------------------------------
ReservedSymbols == {"#", "*", ";", "?", "@"}

LeadsWithReserved == input # <<>> /\ input[1] \in ReservedSymbols

\* C2 as claimed: an input whose leading character is a reserved symbol is
\* rejected with a SyntaxError, and no canonical text is produced for it.
C2_ReservedRejected == LeadsWithReserved => ~Accepted

\* C2 as amended: a leading reserved symbol is no ground for rejection.  The
\* line that is the symbol alone is accepted, and in every accepted line the
\* symbol is matched as a reserved_char token (under unused_char, under
\* element) and is the first character of the canonical text.
C2_ReservedPassedThrough ==
    LeadsWithReserved =>
        /\ Len(input) = 1 => pc # "error"
        /\ Accepted =>
              \E k \in TokenIdx :
                  /\ At(q, k) = Token("reserved_char", 0, 1)
                  /\ k > 1
                  /\ At(q, k - 1) = Token("unused_char", 0, 1)
                  /\ At(q, k - 2) = Token("element", 0, 1)
        /\ pc = "done" => result # <<>> /\ result[1] = input[1]

C2_Witness ==
    /\ pc = "done"
    /\ pass = 1
    /\ LeadsWithReserved
    /\ Len(input) > 1
    /\ result[1] = input[1]

----------------------------------------------------------------------------
QuotedOrField == {"chord_or_text", "nth_repeat_text", "inline_field"}

----------------------------------------------------------------------------
\* C4: for every WSP token of an accepted input that is not inside abc_eol
\* the visitor returns exactly one space: the borrowed slice of the span if
\* the matched text is exactly " ", the owned string " " otherwise.
C4_WspOneSpace ==
    Accepted =>
        \A k \in TokenIdx :
            (At(q, k).rule = "WSP" /\ ~Inside(k, "abc_eol")) =>
                LET r == _recurse_children(k, q, Len(q), input)
                    t == At(q, k)
                IN  /\ to_string(r.rstr, input) = <<" ">>
                    /\ r.rstr = IF Slice(input, t.start, t.end) = <<" ">>
                                THEN from_slice(t.start, t.end)
                                ELSE from_str(<<" ">>)

C4_Witness ==
    /\ pc = "done"
    /\ \E k, j \in TokenIdx :
          /\ At(q, k).rule = "WSP" /\ ~Inside(k, "abc_eol")
          /\ At(q, k).end - At(q, k).start >= 2
          /\ At(q, j).rule = "WSP" /\ ~Inside(j, "abc_eol")
          /\ Slice(input, At(q, j).start, At(q, j).end) = <<" ">>
    /\ Count(result, " ") = 2

----------------------------------------------------------------------------
\* an internal separator starts at offset p: ";" or backslash-n
SeparatorAt(p) ==
    \/ input[p + 1] = ";"
    \/ input[p + 1] = "\\" /\ p + 2 <= Len(input) /\ input[p + 2] = "n"

SeparatorLen(p) == IF input[p + 1] = ";" THEN 1 ELSE 2

\* C5: inside a quoted chord symbol or annotation every internal separator,
\* spelled backslash-n or ";", is matched as a chord_newline token, never
\* as content, and is emitted as the single character ";".
C5_SeparatorNormalized ==
    Accepted =>
        /\ \A k \in TokenIdx :
              At(q, k).rule = "chord_or_text" =>
                  \A p \in (At(q, k).start + 1)..(At(q, k).end - 2) :
                      SeparatorAt(p) =>
                          \E j \in TokenIdx :
                              /\ j > k
                              /\ At(q, j) = Token("chord_newline", p, p + SeparatorLen(p))
        /\ \A j \in TokenIdx :
              At(q, j).rule = "chord_newline" =>
                  _recurse_children(j, q, Len(q), input).rstr = from_str(<<";">>)
        /\ pc = "done" =>
              Count(result, ";") =
                  Count(input, ";")
                  + Cardinality({j \in TokenIdx : /\ At(q, j).rule = "chord_newline"
                                                  /\ At(q, j).end = At(q, j).start + 2})

C5_Witness ==
    /\ pc = "done"
    /\ pass = 1
    /\ \E j \in TokenIdx :
          /\ At(q, j).rule = "chord_newline" /\ At(q, j).end = At(q, j).start + 2
          /\ Inside(j, "chord_or_text")
    /\ Count(input, ";") = 0
    /\ Count(result, ";") = 1
    /\ Count(result, "\\") = 0

----------------------------------------------------------------------------
Rewritten == {"WSP", "chord_newline", "abc_eol"}

\* where the rewritten spans that start at offset p end
RewrittenEnds(p) ==
    {At(q, k).end : k \in {j \in TokenIdx : /\ At(q, j).rule \in Rewritten
                                             /\ At(q, j).start = p
                                             /\ At(q, j).end > p}}

Largest(S) == CHOOSE x \in S : \A y \in S : y <= x

\* result from offset o on is input from offset p on, but for each
\* rewritten span some text no longer than the span
RECURSIVE Frame(_, _)
Frame(p, o) ==
    IF p >= Len(input) THEN o = Len(result)
    ELSE IF RewrittenEnds(p) # {}
         THEN LET e == Largest(RewrittenEnds(p)) IN
              \E n \in 0..(e - p) : o + n <= Len(result) /\ Frame(e, o + n)
         ELSE /\ o < Len(result)
              /\ result[o + 1] = input[p + 1]
              /\ Frame(p + 1, o + 1)

\* C6: the output differs from the input only inside spans matched by WSP,
\* chord_newline or abc_eol; every character outside those spans appears in
\* the output unchanged and in the same order.
C6_FramePreserved == pc = "done" => Frame(0, 0)

C6_Witness ==
    /\ pc = "done"
    /\ Len(result) < Len(input)
    /\ HasRule({"WSP"})
    /\ HasRule({"note"})
    /\ HasRule({"barline"})
    /\ Frame(0, 0)

----------------------------------------------------------------------------
\* C7: canonicalization is idempotent: the canonical text of an accepted
\* line is itself accepted, and its canonical text is the same text.
C7_Idempotent ==
    pass = 2 =>
        /\ input = first
        /\ pc # "error"
        /\ pc = "done" => result = first

C7_Witness ==
    /\ pass = 2
    /\ pc = "done"
    /\ first # line
    /\ result = first

----------------------------------------------------------------------------
\* the spans of the tokens in ks lie end to start from offset lo to offset hi
RECURSIVE Chained(_, _, _)
Chained(ks, lo, hi) ==
    IF ks = <<>> THEN lo = hi
    ELSE /\ At(q, Head(ks)).start = lo
         /\ At(q, Head(ks)).start <= At(q, Head(ks)).end
         /\ Chained(Tail(ks), At(q, Head(ks)).end, hi)

\* C8: the spans of the tokens visit_parse_tree handles at top level cover
\* the input range from 0 to its length in order, with no gap and no
\* overlap (an empty abc_eol at the end is one of them).
C8_TopLevelCovers ==
    /\ pc = "visit" => Chained(tops, 0, IF i < Len(q) THEN At(q, i).start ELSE Len(input))
    /\ pc = "done" => Chained(tops, 0, Len(input))

C8_Witness ==
    /\ pc = "done"
    /\ Len(tops) = 2
    /\ At(q, tops[2]) = Token("abc_eol", Len(input), Len(input))
    /\ At(q, tops[1]) = Token("music_code_line", 0, Len(input))


----------------------------------------------------------------------------
(* Token queues of any shape (SpecTrace).                                  *)

\* tokens ordered by start whose ranges are pairwise nested or disjoint
OrderedNestedOrDisjoint ==
    \A a, b \in TokenIdx : a < b => MayFollow(At(q, a), At(q, b))

\* the order the parser gives its queue: every token after a token either
\* starts at or after that token's end or lies inside it
WellNested ==
    \A a, b \in TokenIdx :
        a < b =>
            /\ At(q, a).start <= At(q, b).start
            /\ (At(q, b).start >= At(q, a).end \/ NestedIn(At(q, b), At(q, a)))

OverrideRules == {"abc_eol", "chord_newline", "WSP"}

\* no override fires in the subtree of token k: none of the tokens
\* _gather_children hands on to _recurse_children is of an overridden rule
NoOverrideBelow(k) ==
    \A n \in 1..Len(_gather_children(k, q, Len(q), input).calls) :
        At(q, _gather_children(k, q, Len(q), input).calls[n]).rule \notin OverrideRules

GatherIsSpan(k) ==
    to_string(_gather_children(k, q, Len(q), input).rstr, input)
        = Slice(input, At(q, k).start, At(q, k).end)

AtStart == pc = "visit" /\ tops = <<>>

----------------------------------------------------------------------------
\* the index of the first token after the subtree of token k
NextAfter(k) ==
    LET J == {j \in TokenIdx : j > k /\ At(q, j).start >= At(q, k).end} IN
    IF J = {} THEN Len(q) ELSE CHOOSE j \in J : \A n \in J : j <= n

ReturnsNextAfter(k) ==
    /\ _recurse_children(k, q, Len(q), input).i > k
    /\ _recurse_children(k, q, Len(q), input).i = NextAfter(k)

\* every index of the queue is in calls, once
EachVisitedOnce ==
    /\ Len(calls) = Len(q)
    /\ \A k \in TokenIdx : Cardinality({n \in 1..Len(calls) : calls[n] = k}) = 1

\* what the walk has visited so far: the indices below i, each once
VisitedOnceSoFar ==
    /\ Len(calls) = i
    /\ \A k \in 0..(i - 1) : Cardinality({n \in 1..Len(calls) : calls[n] = k}) = 1

WalkIsLinear ==
    /\ AtStart => \A k \in TokenIdx : ReturnsNextAfter(k)
    /\ i <= Len(q)
    /\ VisitedOnceSoFar
    /\ pc = "done" => i = Len(q) /\ EachVisitedOnce

LeafOverrides ==
    \A k \in TokenIdx : At(q, k).rule \in {"WSP", "chord_newline"} => NextAfter(k) = k + 1

ParserQueueWellNested == Accepted => WellNested /\ LeafOverrides

-----------------------------------------------------------------------------
(* Note lengths.  The rule note is applied at the start of a text written  *)
(* with a pitch, digits, slashes and ties, so that every way of writing a  *)
(* note length (and every way of writing one badly) is among the inputs;   *)
(* the walk then runs over the queue of that one note.                     *)

MaxLength == 5

LengthAlphabet == {"A", "2", "3", "/", "-"}

RECURSIVE LengthTexts(_)
LengthTexts(n) ==
    IF n = 0 THEN {<<>>}
    ELSE LET S == LengthTexts(n - 1) IN
         S \cup {Append(s, c) : s \in S, c \in LengthAlphabet}

InitLength ==
    /\ line \in LengthTexts(MaxLength)
    /\ input = line
    /\ pc = "ready"
    /\ q = <<>>
    /\ i = 0
    /\ result = <<>>
    /\ calls = <<>>
    /\ tops = <<>>
    /\ pass = 1
    /\ first = <<>>

\* the parser's method for the rule note, on the text from offset 0
ParseNote ==
    /\ pc = "ready"
    /\ LET r == Match(note, input, 0) IN
       IF r.ok THEN pc' = "visit" /\ q' = r.toks
       ELSE pc' = "error" /\ q' = <<>>
    /\ i' = 0
    /\ result' = <<>>
    /\ calls' = <<>>
    /\ tops' = <<>>
    /\ UNCHANGED <<line, input, pass, first>>

NextLength == ParseNote \/ VisitStep \/ VisitEnd

SpecLength == InitLength /\ [][NextLength]_vars

Digit == {"0", "1", "2", "3", "4", "5", "6", "7", "8", "9"}

IsDigits(s) == Len(s) > 0 /\ \A k \in 1..Len(s) : s[k] \in Digit

IsSlashes(s) == Len(s) > 0 /\ \A k \in 1..Len(s) : s[k] = "/"

\* digits/digits
IsFull(s) ==
    \E m \in 2..(Len(s) - 1) :
        /\ s[m] = "/"
        /\ IsDigits(SubSeq(s, 1, m - 1))
        /\ IsDigits(SubSeq(s, m + 1, Len(s)))

\* /digits
IsSmaller(s) == Len(s) > 1 /\ s[1] = "/" /\ IsDigits(Tail(s))

\* the forms '2', '/2', '3/2', '/' and '//'
IsLengthForm(s) == IsDigits(s) \/ IsSmaller(s) \/ IsFull(s) \/ IsSlashes(s)

\* the alternative of note_length that a form belongs to
FormRule(s) ==
    IF IsFull(s) THEN "note_length_full"
    ELSE IF IsSmaller(s) THEN "note_length_smaller"
    ELSE IF IsDigits(s) THEN "note_length_bigger"
    ELSE "note_length_slashes"

\* the ends e for which input[p..e) is a length form
FormEnds(p) == {e \in (p + 1)..Len(input) : IsLengthForm(Slice(input, p, e))}

\* token k is the pitch of a note
NotePitch(k) ==
    /\ k >= 1
    /\ At(q, k).rule = "pitch"
    /\ At(q, k - 1).rule = "note"
    /\ At(q, k - 1).start = At(q, k).start

\* the note whose pitch is token k holds a note_length token over
\* input[p..e), matched by the alternative named
LengthMatched(k, p, e, name) ==
    /\ At(q, k - 1).end >= e
    /\ \E j \in TokenIdx :
        /\ j > k
        /\ j + 1 \in TokenIdx
        /\ At(q, j) = Token("note_length", p, e)
        /\ At(q, j + 1) = Token(name, p, e)

\* C11: whenever note matches and the text after its pitch begins with a
\* note length in one of the forms digits, /digits, digits/digits or a run
\* of slashes, note_length matches the longest such form whole, by the
\* alternative the form belongs to (digits/digits by note_length_full, never
\* cut to its numerator), and the note token reaches to the end of it.
C11_LengthNotTruncated ==
    Accepted =>
        \A k \in TokenIdx :
            NotePitch(k) /\ FormEnds(At(q, k).end) # {} =>
                LET p == At(q, k).end
                    e == Largest(FormEnds(p))
                IN  LengthMatched(k, p, e, FormRule(Slice(input, p, e)))

\* note has matched A3/2 followed by a tie: one note over the whole text,
\* its length matched by note_length_full, and the walk has returned it
C11_Witness ==
    /\ pc = "done"
    /\ input = <<"A", "3", "/", "2", "-">>
    /\ NotePitch(1)
    /\ At(q, 0) = Token("note", 0, 5)
    /\ At(q, 3) = Token("note_length", 1, 4)
    /\ At(q, 4) = Token("note_length_full", 1, 4)
    /\ result = input

============================================================================
